---- MODULE Spec2Model ----
(***************************************************************************)
(* Static-timing budgeting and analysis of nextpnr (common/timing.cc).     *)
(*                                                                         *)
(* The module models struct Timing (walk_paths in its topological form,    *)
(* assign_budget), the entry points assign_budget(ctx) and                 *)
(* timing_analysis(ctx), and the slack-histogram binning of                *)
(* timing_analysis.  Delays are integers (delay_t), divisions truncate     *)
(* toward zero as in C++.                                                  *)
(***************************************************************************)
EXTENDS Integers, Sequences, FiniteSets, TLC

VARIABLES
    design,              \* which netlist ctx holds
    route,               \* ctx->getNetinfoRouteDelay(net, usr), per connection
    ovr,                 \* ctx->getBudgetOverride(net, usr, .), per connection
    target_period,       \* v such that ctx->target_freq = 1e12 / v
    auto_freq,           \* ctx->auto_freq
    slack_redist_iter,   \* ctx->slack_redist_iter
    budget,              \* PortRef::budget, per connection
    pc,                  \* position inside the running entry point
    entry,               \* which entry point is running
    net_delays,          \* Timing::net_delays
    update,              \* Timing::update
    min_slack,           \* Timing::min_slack
    topographical_order, \* walk_paths local
    port_fanin,          \* walk_paths local (a map: its DOMAIN is the key set)
    queue,               \* walk_paths local
    net_data,            \* walk_paths local (a map: its DOMAIN is the key set)
    idx,                 \* position of the forward / backward loop
    budget_at_entry,     \* history: budget when the entry point was called
    prev_assign,         \* history: what the last completed assign_budget left
    back_to_back,        \* history: the running assign_budget directly follows one
    hist_pc,             \* histogram: position
    slack_histogram,     \* histogram: DelayFrequency map (slack_ps -> count)
    hist_keys,           \* histogram: keys still to iterate, ascending
    bin_size,            \* histogram: local
    bins,                \* histogram: local vector, indexed from 0
    max_freq,            \* histogram: local
    hist_lost            \* histogram: samples written outside the bins vector

timing_vars == <<design, route, ovr, target_period, auto_freq, slack_redist_iter,
                 budget, pc, entry, net_delays, update, min_slack,
                 topographical_order, port_fanin, queue, net_data, idx,
                 budget_at_entry, prev_assign, back_to_back>>
hist_vars == <<hist_pc, slack_histogram, hist_keys, bin_size, bins, max_freq, hist_lost>>
vars == <<timing_vars, hist_vars>>

(***************************************************************************)
(* Bounds of the model.                                                    *)
(***************************************************************************)
MinPeriod == 2         \* shortest initial target period
MaxPeriod == 5         \* longest initial target period (27 is added: see ClkPeriodOf)
MaxRouteDelay == 2     \* a connection's route delay is 0 or this
MaxOverride == 1       \* the delay of a budget override, where there is one
MaxRedistIter == 1     \* ctx->slack_redist_iter is 0 or this

(***************************************************************************)
(* Program constants.                                                      *)
(***************************************************************************)
DelayMax == 2147483647
num_bins == 20

NoNet == "none"
NoClock == ""
NoOverride == -1

Min2(a, b) == IF a < b THEN a ELSE b
Max2(a, b) == IF a > b THEN a ELSE b

\* C++ integer division: the quotient is truncated toward zero.
TruncDiv(a, b) == IF a >= 0 THEN a \div b ELSE -((-a) \div b)

(***************************************************************************)
(* Netlists.  A design lists ctx->cells in iteration order, each cell's    *)
(* ports in iteration order, the direction and net of every port, the      *)
(* users of every net, and the delay model's answers: which ports          *)
(* getPortClock reports as clocked and which (cell, from, to) arcs         *)
(* getCellDelay reports as a path, with their maxDelay().                  *)
(***************************************************************************)

\* A register drives a buffer that drives a second register.
ChainDesign ==
    [cells   |-> <<"ff1", "buf", "ff2">>,
     io      |-> {},
     ports   |-> ("ff1" :> <<"CLK", "D", "Q">>) @@ ("buf" :> <<"I", "O">>) @@
                 ("ff2" :> <<"CLK", "D", "Q">>),
     outs    |-> {<<"ff1", "Q">>, <<"buf", "O">>, <<"ff2", "Q">>},
     pnet    |-> (<<"ff1", "CLK">> :> NoNet) @@ (<<"ff1", "D">> :> NoNet) @@
                 (<<"ff1", "Q">> :> "n0") @@ (<<"buf", "I">> :> "n0") @@
                 (<<"buf", "O">> :> "n1") @@ (<<"ff2", "CLK">> :> NoNet) @@
                 (<<"ff2", "D">> :> "n1") @@ (<<"ff2", "Q">> :> NoNet),
     users   |-> ("n0" :> << <<"buf", "I">> >>) @@ ("n1" :> << <<"ff2", "D">> >>),
     clocked |-> {<<"ff1", "D">>, <<"ff1", "Q">>, <<"ff2", "D">>, <<"ff2", "Q">>},
     arcs    |-> (<<"ff1", "clk", "Q">> :> 1) @@ (<<"buf", "I", "O">> :> 2) @@
                 (<<"ff2", "clk", "Q">> :> 1)]

\* An I/O pad and a register reconverge on a two-input gate; two registers
\* capture.  The cells are listed sinks first.
ReconvDesign ==
    [cells   |-> <<"and", "ff2", "buf", "pad", "ff1">>,
     io      |-> {"pad"},
     ports   |-> ("and" :> <<"A", "B", "O">>) @@ ("ff2" :> <<"D", "Q">>) @@
                 ("buf" :> <<"I", "O">>) @@ ("pad" :> <<"D_IN_0">>) @@
                 ("ff1" :> <<"D", "Q">>),
     outs    |-> {<<"and", "O">>, <<"ff2", "Q">>, <<"buf", "O">>,
                  <<"pad", "D_IN_0">>, <<"ff1", "Q">>},
     pnet    |-> (<<"and", "A">> :> "a1") @@ (<<"and", "B">> :> "n0") @@
                 (<<"and", "O">> :> "n1") @@ (<<"ff2", "D">> :> "n1") @@
                 (<<"ff2", "Q">> :> NoNet) @@ (<<"buf", "I">> :> "a0") @@
                 (<<"buf", "O">> :> "a1") @@ (<<"pad", "D_IN_0">> :> "a0") @@
                 (<<"ff1", "D">> :> "a1") @@ (<<"ff1", "Q">> :> "n0"),
     users   |-> ("a0" :> << <<"buf", "I">> >>) @@
                 ("a1" :> << <<"and", "A">>, <<"ff1", "D">> >>) @@
                 ("n0" :> << <<"and", "B">> >>) @@
                 ("n1" :> << <<"ff2", "D">> >>),
     clocked |-> {<<"ff1", "D">>, <<"ff1", "Q">>, <<"ff2", "D">>, <<"ff2", "Q">>},
     arcs    |-> (<<"ff1", "clk", "Q">> :> 1) @@ (<<"ff2", "clk", "Q">> :> 1) @@
                 (<<"buf", "I", "O">> :> 2) @@ (<<"and", "A", "O">> :> 1) @@
                 (<<"and", "B", "O">> :> 1)]

\* A two-input gate with one input driven by a register and the other by a
\* constant driver (a combinational cell with no connected input).
ConstDesign ==
    [cells   |-> <<"ff1", "tie", "and", "ff2">>,
     io      |-> {},
     ports   |-> ("ff1" :> <<"D", "Q">>) @@ ("tie" :> <<"O">>) @@
                 ("and" :> <<"A", "B", "O">>) @@ ("ff2" :> <<"D", "Q">>),
     outs    |-> {<<"ff1", "Q">>, <<"tie", "O">>, <<"and", "O">>, <<"ff2", "Q">>},
     pnet    |-> (<<"ff1", "D">> :> NoNet) @@ (<<"ff1", "Q">> :> "n0") @@
                 (<<"tie", "O">> :> "k0") @@ (<<"and", "A">> :> "n0") @@
                 (<<"and", "B">> :> "k0") @@ (<<"and", "O">> :> "n1") @@
                 (<<"ff2", "D">> :> "n1") @@ (<<"ff2", "Q">> :> NoNet),
     users   |-> ("n0" :> << <<"and", "A">> >>) @@ ("k0" :> << <<"and", "B">> >>) @@
                 ("n1" :> << <<"ff2", "D">> >>),
     clocked |-> {<<"ff1", "D">>, <<"ff1", "Q">>, <<"ff2", "D">>, <<"ff2", "Q">>},
     arcs    |-> (<<"ff1", "clk", "Q">> :> 1) @@ (<<"ff2", "clk", "Q">> :> 1) @@
                 (<<"and", "A", "O">> :> 1) @@ (<<"and", "B", "O">> :> 1)]

\* A combinational feedback loop: the gate's output runs through a buffer
\* back into the gate's second input.
LoopDesign ==
    [cells   |-> <<"ff1", "and", "buf", "ff2">>,
     io      |-> {},
     ports   |-> ("ff1" :> <<"D", "Q">>) @@ ("and" :> <<"A", "B", "O">>) @@
                 ("buf" :> <<"I", "O">>) @@ ("ff2" :> <<"D", "Q">>),
     outs    |-> {<<"ff1", "Q">>, <<"and", "O">>, <<"buf", "O">>, <<"ff2", "Q">>},
     pnet    |-> (<<"ff1", "D">> :> NoNet) @@ (<<"ff1", "Q">> :> "n0") @@
                 (<<"and", "A">> :> "n0") @@ (<<"and", "B">> :> "n2") @@
                 (<<"and", "O">> :> "n1") @@ (<<"buf", "I">> :> "n1") @@
                 (<<"buf", "O">> :> "n2") @@ (<<"ff2", "D">> :> "n1") @@
                 (<<"ff2", "Q">> :> NoNet),
     users   |-> ("n0" :> << <<"and", "A">> >>) @@
                 ("n1" :> << <<"ff2", "D">>, <<"buf", "I">> >>) @@
                 ("n2" :> << <<"and", "B">> >>),
     clocked |-> {<<"ff1", "D">>, <<"ff1", "Q">>, <<"ff2", "D">>, <<"ff2", "Q">>},
     arcs    |-> (<<"ff1", "clk", "Q">> :> 1) @@ (<<"ff2", "clk", "Q">> :> 1) @@
                 (<<"and", "A", "O">> :> 1) @@ (<<"and", "B", "O">> :> 1) @@
                 (<<"buf", "I", "O">> :> 2)]

Designs == ("chain" :> ChainDesign) @@ ("reconv" :> ReconvDesign) @@
           ("const" :> ConstDesign) @@ ("loop" :> LoopDesign)

Nets(d) == DOMAIN d.users
Range(s) == {s[i] : i \in DOMAIN s}
\* Every sink usage (PortRef in some net->users) of the design.
Conns(d) == UNION {Range(d.users[n]) : n \in Nets(d)}
NetOf(d, c) == d.pnet[c]

(***************************************************************************)
(* Delay model (Context / Arch queries).                                   *)
(***************************************************************************)
getPortClock(d, cell, port) == IF <<cell, port>> \in d.clocked THEN "clk" ELSE NoClock
IsPath(d, cell, from, to) == <<cell, from, to>> \in DOMAIN d.arcs
\* DelayInfo::maxDelay() of the arc; a default DelayInfo is zero.
CellDelay(d, cell, from, to) ==
    IF IsPath(d, cell, from, to) THEN d.arcs[<<cell, from, to>>] ELSE 0
getNetinfoRouteDelay(c) == route[c]
getBudgetOverride(c) == ovr[c] # NoOverride

\* delay_t(1.0e12 / ctx->target_freq) with target_freq = 1e12 / v held as an
\* IEEE double: the two roundings lose one unit for these v (exact for
\* 0 <= v <= 128; 1e12 / 0 is +inf and 1e12 / inf is 0).
ClkPeriodOf(v) == IF v \in {27, 54, 97, 105, 108} THEN v - 1 ELSE v
clk_period == ClkPeriodOf(target_period)

(***************************************************************************)
(* Timing::walk_paths, topological form.                                   *)
(***************************************************************************)

\* TimingData's constructors: every field not given is value-initialised.
TimingData(arrival) ==
    [max_arrival |-> arrival, max_path_length |-> 0, min_remaining_budget |-> 0]

\* std::unordered_map::emplace: no effect when the key is present.
Emplace(m, k, v) == IF k \in DOMAIN m THEN m ELSE m @@ (k :> v)
\* std::unordered_map::operator[]: a missing key gets a default TimingData.
Lookup(m, k) == IF k \in DOMAIN m THEN m[k] ELSE TimingData(0)
Store(m, k, v) == (k :> v) @@ m
Erase(m, k) == [x \in (DOMAIN m) \ {k} |-> m[x]]

\* The ports of a cell with a net, by direction, in iteration order.
OutputPorts(d, cell) ==
    SelectSeq(d.ports[cell],
              LAMBDA p : d.pnet[<<cell, p>>] # NoNet /\ <<cell, p>> \in d.outs)
InputPorts(d, cell) ==
    SelectSeq(d.ports[cell],
              LAMBDA p : d.pnet[<<cell, p>>] # NoNet /\ <<cell, p>> \notin d.outs)

\* One output port o of a cell: a clocked output (or an I/O output) starts
\* the order; any other output gets its fan-in counted.
SeedPort(d, cell, o, s) ==
    LET net == d.pnet[<<cell, o>>]
        clock_domain == getPortClock(d, cell, o)
    IN  IF clock_domain # NoClock
        THEN [s EXCEPT !.order = Append(@, net),
                       !.nd = Emplace(@, net, TimingData(CellDelay(d, cell, clock_domain, o)))]
        ELSE LET s1 == IF cell \in d.io
                       THEN [s EXCEPT !.order = Append(@, net),
                                      !.nd = Emplace(@, net, TimingData(0))]
                       ELSE s
                 ins == InputPorts(d, cell)
                 n == Cardinality({k \in DOMAIN ins : IsPath(d, cell, ins[k], o)})
             IN  IF n > 0
                 THEN [s1 EXCEPT !.fanin = Store(@, <<cell, o>>, n)]
                 ELSE s1

RECURSIVE SeedPorts(_, _, _, _, _)
SeedPorts(d, cell, outs, i, s) ==
    IF i > Len(outs) THEN s
    ELSE SeedPorts(d, cell, outs, i + 1, SeedPort(d, cell, outs[i], s))

RECURSIVE SeedCells(_, _, _)
SeedCells(d, i, s) ==
    IF i > Len(d.cells) THEN s
    ELSE SeedCells(d, i + 1,
                   SeedPorts(d, d.cells[i], OutputPorts(d, d.cells[i]), 1, s))

Seed(d) == SeedCells(d, 1, [order |-> <<>>, fanin |-> <<>>, nd |-> <<>>])

\* The output ports followed from a sink usage: outputs of the user's cell
\* with a net and a combinational path from the user's port.
FollowedOutputs(d, usr) ==
    SelectSeq(d.ports[usr[1]],
              LAMBDA p : /\ <<usr[1], p>> \in d.outs
                         /\ d.pnet[<<usr[1], p>>] # NoNet
                         /\ IsPath(d, usr[1], usr[2], p))

\* The linearizer's work-queue loop, for one followed output port.
KahnPort(d, o, s) ==
    IF o \notin DOMAIN s.fanin
    THEN [s EXCEPT !.failed = TRUE]
    ELSE IF s.fanin[o] - 1 = 0
         THEN [s EXCEPT !.order = Append(@, d.pnet[o]),
                        !.queue = Append(@, d.pnet[o]),
                        !.fanin = Erase(@, o)]
         ELSE [s EXCEPT !.fanin[o] = @ - 1]

RECURSIVE KahnPorts(_, _, _, _, _)
KahnPorts(d, cell, outs, i, s) ==
    IF i > Len(outs) \/ s.failed THEN s
    ELSE KahnPorts(d, cell, outs, i + 1, KahnPort(d, <<cell, outs[i]>>, s))

RECURSIVE KahnUsers(_, _, _, _)
KahnUsers(d, users, i, s) ==
    IF i > Len(users) \/ s.failed THEN s
    ELSE LET usr == users[i]
         IN  IF getPortClock(d, usr[1], usr[2]) # NoClock
             THEN KahnUsers(d, users, i + 1, s)
             ELSE KahnUsers(d, users, i + 1,
                            KahnPorts(d, usr[1], FollowedOutputs(d, usr), 1, s))

\* Forward pass: the connection's delay as the loop body sees it.  net_delay
\* is a mutable local there, and getBudgetOverride writes the override
\* value into it.
FwdNetDelay(c) == IF getBudgetOverride(c) THEN ovr[c] ELSE getNetinfoRouteDelay(c)

\* Backward pass: net_delay is declared const, so it keeps the route delay
\* whatever getBudgetOverride answers.
BwdNetDelay(c) == getNetinfoRouteDelay(c)

\* The share of path_budget a connection takes in the backward pass.
BudgetShareUndivided(c, path_budget, net_length_plus_one) ==
    IF getBudgetOverride(c) THEN 0 ELSE path_budget
BudgetShare(c, path_budget, net_length_plus_one) ==
    IF getBudgetOverride(c) THEN 0 ELSE TruncDiv(path_budget, net_length_plus_one)

\* Forward pass, one followed output port of one user.
ForwardPort(d, usr, o, nd, usr_arrival, net_length_plus_one) ==
    LET onet == d.pnet[<<usr[1], o>>]
        data == Lookup(nd, onet)
        arrival == Max2(data.max_arrival, usr_arrival + CellDelay(d, usr[1], usr[2], o))
        path_length == IF getBudgetOverride(usr)
                       THEN data.max_path_length
                       ELSE Max2(data.max_path_length, net_length_plus_one)
    IN  Store(nd, onet, [data EXCEPT !.max_arrival = arrival,
                                     !.max_path_length = path_length])

RECURSIVE ForwardPorts(_, _, _, _, _, _, _)
ForwardPorts(d, usr, outs, i, nd, usr_arrival, net_length_plus_one) ==
    IF i > Len(outs) THEN nd
    ELSE ForwardPorts(d, usr, outs, i + 1,
                      ForwardPort(d, usr, outs[i], nd, usr_arrival, net_length_plus_one),
                      usr_arrival, net_length_plus_one)

RECURSIVE ForwardUsers(_, _, _, _, _, _)
ForwardUsers(d, users, i, nd, net_arrival, net_length_plus_one) ==
    IF i > Len(users) THEN nd
    ELSE LET usr == users[i]
         IN  IF getPortClock(d, usr[1], usr[2]) # NoClock
             THEN ForwardUsers(d, users, i + 1, nd, net_arrival, net_length_plus_one)
             ELSE ForwardUsers(d, users, i + 1,
                               ForwardPorts(d, usr, FollowedOutputs(d, usr), 1, nd,
                                            net_arrival + FwdNetDelay(usr),
                                            net_length_plus_one),
                               net_arrival, net_length_plus_one)

\* Forward pass, one net of the order.
ForwardNet(d, net, nd) ==
    LET cur == nd[net]
    IN  ForwardUsers(d, d.users[net], 1,
                     Store(nd, net, [cur EXCEPT !.min_remaining_budget = clk_period]),
                     cur.max_arrival, cur.max_path_length + 1)

\* Backward pass, a user that is a clocked input: the end of a path.
\* s holds net_data, the budgets and min_slack.
BackwardEndpoint(net, usr, s, net_length_plus_one) ==
    LET net_delay == BwdNetDelay(usr)
        path_budget == clk_period - (s.nd[net].max_arrival + net_delay)
        budget_share == BudgetShare(usr, path_budget, net_length_plus_one)
    IN  [s EXCEPT !.budget[usr] = Min2(@, net_delay + budget_share),
                  !.nd[net].min_remaining_budget = Min2(@, path_budget - budget_share),
                  !.min_slack = Min2(@, path_budget)]

\* Backward pass, one followed output port of a user that is not clocked.
BackwardPort(d, net, usr, o, s, net_length_plus_one) ==
    LET net_delay == BwdNetDelay(usr)
        path_budget == s.nd[d.pnet[<<usr[1], o>>]].min_remaining_budget
        budget_share == BudgetShare(usr, path_budget, net_length_plus_one)
    IN  [s EXCEPT !.budget[usr] = Min2(@, net_delay + budget_share),
                  !.nd[net].min_remaining_budget = Min2(@, path_budget - budget_share)]

RECURSIVE BackwardPorts(_, _, _, _, _, _, _)
BackwardPorts(d, net, usr, outs, i, s, net_length_plus_one) ==
    IF i > Len(outs) THEN s
    ELSE BackwardPorts(d, net, usr, outs, i + 1,
                       BackwardPort(d, net, usr, outs[i], s, net_length_plus_one),
                       net_length_plus_one)

RECURSIVE BackwardUsers(_, _, _, _, _, _)
BackwardUsers(d, net, users, i, s, net_length_plus_one) ==
    IF i > Len(users) THEN s
    ELSE LET usr == users[i]
         IN  IF getPortClock(d, usr[1], usr[2]) # NoClock
             THEN BackwardUsers(d, net, users, i + 1,
                                BackwardEndpoint(net, usr, s, net_length_plus_one),
                                net_length_plus_one)
             ELSE BackwardUsers(d, net, users, i + 1,
                                BackwardPorts(d, net, usr, FollowedOutputs(d, usr), 1, s,
                                              net_length_plus_one),
                                net_length_plus_one)

\* Backward pass, one net of the reversed order.
BackwardNet(d, net, s) ==
    BackwardUsers(d, net, d.users[net], 1, s, s.nd[net].max_path_length + 1)

(***************************************************************************)
(* State machine of the timing engine.                                     *)
(***************************************************************************)
D == Designs[design]

NoPrev == [fresh |-> FALSE, budget |-> <<>>, min_slack |-> 0]

\* At most one connection of the design carries a budget override.
Overrides(d) ==
    {[c \in Conns(d) |-> NoOverride]} \cup
    {[c \in Conns(d) |-> IF c = o THEN MaxOverride ELSE NoOverride] : o \in Conns(d)}

HistIdle ==
    /\ hist_pc = "off"
    /\ slack_histogram = <<>>
    /\ hist_keys = <<>>
    /\ bin_size = 0
    /\ bins = <<>>
    /\ max_freq = 0
    /\ hist_lost = 0

TimingIdle ==
    /\ pc = "idle"
    /\ entry = "none"
    /\ net_delays = FALSE
    /\ update = FALSE
    /\ min_slack = 0
    /\ topographical_order = <<>>
    /\ port_fanin = <<>>
    /\ queue = <<>>
    /\ net_data = <<>>
    /\ idx = 0
    /\ prev_assign = NoPrev
    /\ back_to_back = FALSE

\* A freshly built netlist: PortRef::budget starts at 0.
Init ==
    /\ design \in DOMAIN Designs
    /\ route \in [Conns(D) -> {0, MaxRouteDelay}]
    /\ ovr \in Overrides(D)
    /\ target_period \in (MinPeriod .. MaxPeriod) \cup {27}
    /\ auto_freq \in BOOLEAN
    /\ slack_redist_iter \in {0, MaxRedistIter}
    /\ budget = [c \in Conns(D) |-> 0]
    /\ budget_at_entry = budget
    /\ TimingIdle
    /\ HistIdle

\* Timing's constructor and the first loop of walk_paths (origins and
\* fan-in counts); the work queue is a copy of the order so far.
StartWalk(is_update, with_net_delays, name) ==
    LET s == Seed(D)
    IN  /\ net_delays' = with_net_delays
        /\ update' = is_update
        /\ min_slack' = clk_period
        /\ entry' = name
        /\ topographical_order' = s.order
        /\ port_fanin' = s.fanin
        /\ net_data' = s.nd
        /\ queue' = s.order
        /\ idx' = 0
        /\ pc' = IF s.order = <<>> THEN "finish" ELSE "linearize"

\* assign_budget(ctx): Timing(ctx, slack_redist_iter > 0, true), then
\* Timing::assign_budget clears every budget and walks the paths.
AssignBudgetBegin ==
    /\ pc = "idle"
    /\ budget_at_entry' = budget
    /\ budget' = [c \in Conns(D) |-> DelayMax]
    /\ StartWalk(TRUE, slack_redist_iter > 0, "assign_budget")
    /\ back_to_back' = prev_assign.fresh
    /\ UNCHANGED <<design, route, ovr, target_period, auto_freq, slack_redist_iter,
                   prev_assign, hist_vars>>

\* timing_analysis(ctx): Timing(ctx, true, false), then walk_paths.
TimingAnalysisBegin ==
    /\ pc = "idle"
    /\ budget_at_entry' = budget
    /\ StartWalk(FALSE, TRUE, "timing_analysis")
    /\ back_to_back' = FALSE
    /\ prev_assign' = NoPrev
    /\ UNCHANGED <<design, route, ovr, target_period, auto_freq, slack_redist_iter,
                   budget, hist_vars>>

\* One turn of the work-queue loop: pop the front net, follow its users.
LinearizeStep ==
    /\ pc = "linearize"
    /\ queue # <<>>
    /\ LET net == Head(queue)
           s == KahnUsers(D, D.users[net], 1,
                          [order |-> topographical_order, queue |-> Tail(queue),
                           fanin |-> port_fanin, failed |-> FALSE])
       IN  /\ topographical_order' = s.order
           /\ queue' = s.queue
           /\ port_fanin' = s.fanin
           /\ pc' = IF s.failed THEN "assert_failed"
                    ELSE IF s.queue = <<>> THEN "forward" ELSE "linearize"
           /\ idx' = IF s.queue = <<>> THEN 1 ELSE idx
    /\ UNCHANGED <<design, route, ovr, target_period, auto_freq, slack_redist_iter,
                   budget, entry, net_delays, update, min_slack, net_data,
                   budget_at_entry, prev_assign, back_to_back, hist_vars>>

\* One net of the forward loop, in order.
ForwardStep ==
    /\ pc = "forward"
    /\ idx <= Len(topographical_order)
    /\ net_data' = ForwardNet(D, topographical_order[idx], net_data)
    /\ IF idx = Len(topographical_order)
       THEN pc' = "backward" /\ idx' = Len(topographical_order)
       ELSE pc' = "forward" /\ idx' = idx + 1
    /\ UNCHANGED <<design, route, ovr, target_period, auto_freq, slack_redist_iter,
                   budget, entry, net_delays, update, min_slack, topographical_order,
                   port_fanin, queue, budget_at_entry, prev_assign, back_to_back,
                   hist_vars>>

\* One net of the backward loop, in reverse order.
BackwardStep ==
    /\ pc = "backward"
    /\ idx >= 1
    /\ LET s == BackwardNet(D, topographical_order[idx],
                            [nd |-> net_data, budget |-> budget, min_slack |-> min_slack])
       IN  /\ net_data' = s.nd
           /\ budget' = s.budget
           /\ min_slack' = s.min_slack
    /\ IF idx = 1
       THEN pc' = "finish" /\ idx' = 0
       ELSE pc' = "backward" /\ idx' = idx - 1
    /\ UNCHANGED <<design, route, ovr, target_period, auto_freq, slack_redist_iter,
                   entry, net_delays, update, topographical_order, port_fanin, queue,
                   budget_at_entry, prev_assign, back_to_back, hist_vars>>

\* The period the automatic frequency adjustment sets for the next update.
AutoFreqPeriodWrong(default_slack, slack) == default_slack + slack
AutoFreqPeriod(default_slack, slack) == default_slack - slack

LeaveWalk ==
    /\ pc' = "idle"
    /\ entry' = "none"
    /\ net_delays' = FALSE
    /\ update' = FALSE
    /\ min_slack' = 0
    /\ topographical_order' = <<>>
    /\ port_fanin' = <<>>
    /\ queue' = <<>>
    /\ net_data' = <<>>
    /\ idx' = 0
    /\ back_to_back' = FALSE
    /\ budget_at_entry' = budget

\* The rest of assign_budget(ctx) after the walk.
AssignBudgetEnd ==
    /\ pc = "finish"
    /\ entry = "assign_budget"
    /\ target_period' = IF auto_freq /\ slack_redist_iter > 0
                        THEN AutoFreqPeriod(clk_period, min_slack)
                        ELSE target_period
    /\ prev_assign' = [fresh |-> TRUE, budget |-> budget, min_slack |-> min_slack]
    /\ LeaveWalk
    /\ UNCHANGED <<design, route, ovr, auto_freq, slack_redist_iter, budget, hist_vars>>

\* The rest of timing_analysis(ctx) after the walk (reporting only).
TimingAnalysisEnd ==
    /\ pc = "finish"
    /\ entry = "timing_analysis"
    /\ LeaveWalk
    /\ UNCHANGED <<design, route, ovr, target_period, auto_freq, slack_redist_iter,
                   budget, prev_assign, hist_vars>>

Next ==
    \/ AssignBudgetBegin
    \/ TimingAnalysisBegin
    \/ LinearizeStep
    \/ ForwardStep
    \/ BackwardStep
    \/ AssignBudgetEnd
    \/ TimingAnalysisEnd

Spec == Init /\ [][Next]_vars

(***************************************************************************)
(* Slack histogram of timing_analysis (the binning loop).                  *)
(***************************************************************************)
MaxSlackPs == 41       \* samples are slacks of 0 .. MaxSlackPs picoseconds
MaxCount == 2          \* endpoints sharing one slack value

SetMin(S) == CHOOSE x \in S : \A y \in S : x <= y
RECURSIVE Ascending(_)
\* std::map iterates its keys in ascending order.
Ascending(S) == IF S = {} THEN <<>> ELSE <<SetMin(S)>> \o Ascending(S \ {SetMin(S)})

RECURSIVE SumOver(_, _)
SumOver(f, S) ==
    IF S = {} THEN 0
    ELSE LET x == CHOOSE y \in S : TRUE IN f[x] + SumOver(f, S \ {x})

\* The samples {1,1,2,5,5,5,9} as a slack -> count map.
ExampleSamples == (1 :> 2) @@ (2 :> 1) @@ (5 :> 3) @@ (9 :> 1)

SampleMaps ==
    {<<>>, ExampleSamples} \cup
    UNION {[K -> 1 .. MaxCount] :
             K \in {{a, b} : a \in 0 .. MaxSlackPs, b \in 0 .. MaxSlackPs}}

InitHist ==
    /\ design = "chain"
    /\ route = [c \in Conns(D) |-> 0]
    /\ ovr = [c \in Conns(D) |-> NoOverride]
    /\ target_period = MaxPeriod
    /\ auto_freq = FALSE
    /\ slack_redist_iter = 0
    /\ budget = [c \in Conns(D) |-> 0]
    /\ budget_at_entry = budget
    /\ TimingIdle
    /\ hist_pc = "start"
    /\ slack_histogram \in SampleMaps
    /\ hist_keys = <<>>
    /\ bin_size = 0
    /\ bins = <<>>
    /\ max_freq = 0
    /\ hist_lost = 0

\* if (print_histogram && slack_histogram.size() > 0) is false.
HistSkip ==
    /\ hist_pc = "start"
    /\ DOMAIN slack_histogram = {}
    /\ hist_pc' = "done"
    /\ UNCHANGED <<timing_vars, slack_histogram, hist_keys, bin_size, bins, max_freq,
                   hist_lost>>

\* The width of a bin: an int division of the slack range by num_bins.
BinSize(lo, hi) == (hi - lo) \div num_bins

\* The setup before the loop: range, bin width, num_bins + 1 empty bins.
HistBegin ==
    /\ hist_pc = "start"
    /\ DOMAIN slack_histogram # {}
    /\ LET keys == Ascending(DOMAIN slack_histogram)
       IN  /\ hist_keys' = keys
           /\ bin_size' = BinSize(keys[1], keys[Len(keys)])
    /\ bins' = [i \in 0 .. num_bins |-> 0]
    /\ max_freq' = 0
    /\ hist_pc' = "binning"
    /\ UNCHANGED <<timing_vars, slack_histogram, hist_lost>>

HistMinSlack == SetMin(DOMAIN slack_histogram)

\* One sample whose bin index is inside the vector.
HistBin ==
    /\ hist_pc = "binning"
    /\ hist_keys # <<>>
    /\ bin_size # 0
    /\ LET k == Head(hist_keys)
           i == (k - HistMinSlack) \div bin_size
       IN  /\ i <= num_bins
           /\ bins' = [bins EXCEPT ![i] = @ + slack_histogram[k]]
           /\ max_freq' = Max2(max_freq, bins[i] + slack_histogram[k])
    /\ hist_keys' = Tail(hist_keys)
    /\ UNCHANGED <<timing_vars, hist_pc, slack_histogram, bin_size, hist_lost>>

\* One sample with bin_size = 0: an integer division by zero, which is
\* undefined.  The build either traps or yields quotient 0.
HistBinDivZero ==
    /\ hist_pc = "binning"
    /\ hist_keys # <<>>
    /\ bin_size = 0
    /\ \/ /\ hist_pc' = "trapped"
          /\ UNCHANGED <<hist_keys, bins, max_freq>>
       \/ /\ bins' = [bins EXCEPT ![0] = @ + slack_histogram[Head(hist_keys)]]
          /\ max_freq' = Max2(max_freq, bins[0] + slack_histogram[Head(hist_keys)])
          /\ hist_keys' = Tail(hist_keys)
          /\ UNCHANGED hist_pc
    /\ UNCHANGED <<timing_vars, slack_histogram, bin_size, hist_lost>>

\* One sample whose bin index is past the vector's last element: the write
\* is undefined.  The build either traps or adds the count to whatever lies
\* past the vector (g stands for what was there).
HistBinOutOfRange ==
    /\ hist_pc = "binning"
    /\ hist_keys # <<>>
    /\ bin_size # 0
    /\ (Head(hist_keys) - HistMinSlack) \div bin_size > num_bins
    /\ \/ /\ hist_pc' = "trapped"
          /\ UNCHANGED <<hist_keys, max_freq, hist_lost>>
       \/ /\ hist_lost' = hist_lost + slack_histogram[Head(hist_keys)]
          /\ \E g \in 0 .. MaxCount :
                max_freq' = Max2(max_freq, g + slack_histogram[Head(hist_keys)])
          /\ hist_keys' = Tail(hist_keys)
          /\ UNCHANGED hist_pc
    /\ UNCHANGED <<timing_vars, slack_histogram, bin_size, bins>>

\* The loop is over; the bars are printed from bins and max_freq.
HistEnd ==
    /\ hist_pc = "binning"
    /\ hist_keys = <<>>
    /\ hist_pc' = "done"
    /\ UNCHANGED <<timing_vars, slack_histogram, hist_keys, bin_size, bins, max_freq,
                   hist_lost>>

NextHist ==
    \/ HistSkip
    \/ HistBegin
    \/ HistBin
    \/ HistBinDivZero
    \/ HistBinOutOfRange
    \/ HistEnd

SpecHist == InitHist /\ [][NextHist]_vars

(***************************************************************************)
(* Vocabulary of the properties: paths, arrivals, positions.               *)
(***************************************************************************)
Clocked(d, c) == getPortClock(d, c[1], c[2]) # NoClock

\* The nets a net drives combinationally, through one cell.
NetSucc(d, n) ==
    UNION {{d.pnet[<<c[1], o>>] : o \in Range(FollowedOutputs(d, c))} :
             c \in {u \in Range(d.users[n]) : ~Clocked(d, u)}}

RECURSIVE ReachIn(_, _, _)
ReachIn(d, S, k) ==
    IF k = 0 THEN S
    ELSE ReachIn(d, S \cup UNION {NetSucc(d, n) : n \in S \cap Nets(d)}, k - 1)

\* No net drives itself combinationally.
Acyclic(d) ==
    \A n \in Nets(d) : n \notin ReachIn(d, NetSucc(d, n), Cardinality(Nets(d)))

\* Nets driven by a clocked output or by an output of an I/O cell.
OriginPorts(d) ==
    {o \in d.outs : d.pnet[o] # NoNet /\ (Clocked(d, o) \/ o[1] \in d.io)}
OriginNets(d) == {d.pnet[o] : o \in OriginPorts(d)}
InitialArrival(d, n) ==
    LET o == CHOOSE x \in OriginPorts(d) : d.pnet[x] = n
    IN  IF Clocked(d, o) THEN CellDelay(d, o[1], "clk", o[2]) ELSE 0

\* The combinational paths (sequences of connections) that start with a
\* user of net n and end at a clocked input, of at most k connections.
RECURSIVE PathsFrom(_, _, _)
PathsFrom(d, n, k) ==
    IF k = 0 THEN {}
    ELSE UNION {IF Clocked(d, c)
                THEN {<<c>>}
                ELSE UNION {{<<c>> \o q : q \in PathsFrom(d, d.pnet[<<c[1], o>>], k - 1)} :
                              o \in Range(FollowedOutputs(d, c))} :
                  c \in Range(d.users[n])}

TimingPaths(d) == UNION {PathsFrom(d, n, Cardinality(Nets(d))) : n \in OriginNets(d)}

\* The cell delays along a path, and the budgets of its connections.
RECURSIVE CombSum(_, _, _)
CombSum(d, p, i) ==
    IF i >= Len(p) THEN 0
    ELSE LET o == CHOOSE x \in Range(FollowedOutputs(d, p[i])) :
                     d.pnet[<<p[i][1], x>>] = NetOf(d, p[i + 1])
         IN  CellDelay(d, p[i][1], p[i][2], o) + CombSum(d, p, i + 1)

RECURSIVE SeqSum(_, _, _)
SeqSum(f, p, i) == IF i > Len(p) THEN 0 ELSE f[p[i]] + SeqSum(f, p, i + 1)

\* The delay a connection is meant to realize: the override where there is
\* one, the route delay otherwise.
RealizedDelay(c) == IF ovr[c] # NoOverride THEN ovr[c] ELSE route[c]
Realized == [c \in Conns(D) |-> RealizedDelay(c)]

\* Total delay of a path up to the input of its last connection's sink.
PathDelay(d, p) ==
    InitialArrival(d, NetOf(d, p[1])) + CombSum(d, p, 1) + SeqSum(Realized, p, 1)

SetMax(S) == CHOOSE x \in S : \A y \in S : x >= y

\* The arrivals at net n over the combinational paths from the origins, of
\* at most k cells, each connection c taking f[c].
RECURSIVE ArrivalsAt(_, _, _, _)
ArrivalsAt(d, f, n, k) ==
    (IF n \in OriginNets(d) THEN {InitialArrival(d, n)} ELSE {}) \cup
    (IF k = 0 THEN {}
     ELSE UNION {UNION {{a + f[c] + CellDelay(d, c[1], c[2], o) :
                           a \in ArrivalsAt(d, f, NetOf(d, c), k - 1)} :
                          o \in {x \in Range(FollowedOutputs(d, c)) : d.pnet[<<c[1], x>>] = n}} :
                   c \in {u \in Conns(d) : ~Clocked(d, u)}})

\* Connection delays with every route delay taken as zero.
Unrouted == [c \in Conns(D) |-> IF ovr[c] # NoOverride THEN ovr[c] ELSE 0]

Pos(x, seq) == CHOOSE i \in DOMAIN seq : seq[i] = x
InOrder(n) == n \in Range(topographical_order)

Walked == pc \in {"forward", "backward", "finish"}
Budgeted == pc = "finish" /\ entry = "assign_budget"

(***************************************************************************)
(* Properties.                                                             *)
(***************************************************************************)

\* C1: after budgeting mode on an acyclic netlist, every origin-to-terminus
\* path whose connections all have a budget >= 0 meets the target period
\* when each connection consumes exactly its budget: initial arrival + cell
\* delays + budgets <= clock period.
C1_BudgetedPathsMeetPeriod ==
    (Budgeted /\ Acyclic(D)) =>
        \A p \in TimingPaths(D) :
            (\A i \in DOMAIN p : budget[p[i]] >= 0) =>
                /\ \A i \in DOMAIN p : budget[p[i]] < DelayMax
                /\ InitialArrival(D, NetOf(D, p[1])) + CombSum(D, p, 1)
                        + SeqSum(budget, p, 1) <= clk_period

\* C2: when walk_paths has completed on an acyclic netlist, min_slack is the
\* target period minus the total delay of the worst origin-to-terminus path.
C2_MinSlackIsWorstPath ==
    (pc = "finish" /\ Acyclic(D) /\ TimingPaths(D) # {}) =>
        min_slack = clk_period - SetMax({PathDelay(D, p) : p \in TimingPaths(D)})

\* C3: on an acyclic netlist the linearizer's order is a topological order
\* of the combinational subgraph: a net N with a non-clocked user whose cell
\* drives net M combinationally from that input stands before M.
C3_OrderIsTopological ==
    (Walked /\ Acyclic(D)) =>
        \A n \in Nets(D) : \A m \in NetSucc(D, n) :
            /\ InOrder(n)
            /\ InOrder(m)
            /\ Pos(n, topographical_order) < Pos(m, topographical_order)

\* C4: when the work queue empties while an output port still has a nonzero
\* in-degree (a combinational loop), the pass is aborted: the forward and
\* backward passes never run with in-degrees left over.
C4_LoopAbortsPass ==
    (Walked /\ ~Acyclic(D)) => DOMAIN port_fanin = {}

\* C5: analysis mode leaves every connection's budget as it found it.
C5_AnalysisKeepsBudgets ==
    entry = "timing_analysis" => budget = budget_at_entry

\* C6 (as claimed): a budgeting run directly after a budgeting run, nothing
\* changed in between, increases no budget, automatic frequency adjustment
\* included.
C6_SecondRunNeverLoosens ==
    (Budgeted /\ back_to_back) =>
        \A c \in Conns(D) : budget[c] <= prev_assign.budget[c]

\* C6 (amended): a budgeting run directly after a budgeting run increases no
\* budget when the target period was not lengthened in between: automatic
\* frequency adjustment is inactive, or the first run's min_slack was >= 0.
C6_SecondRunTightensUnlessPeriodGrew ==
    (Budgeted /\ back_to_back
        /\ (~(auto_freq /\ slack_redist_iter > 0) \/ prev_assign.min_slack >= 0)) =>
        \A c \in Conns(D) : budget[c] <= prev_assign.budget[c]

\* C6 witness: a second budgeting run under automatic frequency adjustment
\* that tightened a budget after a first run with positive slack.
C6_Witness ==
    /\ Budgeted /\ back_to_back
    /\ auto_freq /\ slack_redist_iter > 0
    /\ prev_assign.min_slack > 0
    /\ \E c \in Conns(D) : budget[c] < prev_assign.budget[c]

\* The register - buffer - register design with zero-delay connections.
C7_Case ==
    /\ Budgeted
    /\ design = "chain"
    /\ \A c \in Conns(D) : route[c] = 0 /\ ovr[c] = NoOverride

C7_Arrival == CellDelay(D, "ff1", "clk", "Q") + CellDelay(D, "buf", "I", "O")

\* C7 (as claimed): the final connection's budget is the target period
\* minus the arrival at the buffer's output net.
C7_FinalBudgetIsWholeSlack ==
    C7_Case => budget[<<"ff2", "D">>] = clk_period - C7_Arrival

\* C7 (amended): the arrival at the buffer's output net is clock-to-Q +
\* buffer delay, and the final connection's budget is half of (target
\* period - that arrival), rounded toward zero: the slack is shared evenly
\* between the two connections of the path.
C7_FinalBudgetIsHalfSlack ==
    C7_Case =>
        /\ net_data["n1"].max_arrival = C7_Arrival
        /\ LET x == clk_period - C7_Arrival
               b == budget[<<"ff2", "D">>]
           IN  IF x >= 0 THEN 2 * b <= x /\ x < 2 * b + 2
                         ELSE 2 * b >= x /\ x > 2 * b - 2

\* C7 witness: the design budgeted at period 5: arrival 3, budget 1.
C7_Witness ==
    C7_Case /\ clk_period = 5 /\ budget[<<"ff2", "D">>] = 1

\* C8: after budgeting mode a connection with override D on a net of the
\* order has budget exactly D (D is its delay, and it takes no share).
C8_OverrideIsBudget ==
    Budgeted =>
        \A c \in Conns(D) :
            (getBudgetOverride(c) /\ InOrder(NetOf(D, c))) => budget[c] = ovr[c]

\* C9: in budgeting mode with slack_redist_iter = 0 (net_delays = false)
\* route delays count as zero: the arrival of every net of the order is the
\* worst sum of clock-to-output and cell delays (and overrides) on the way
\* to it, and an endpoint connection's budget is its share alone.
C9_NoRouteDelayBeforeRouting ==
    (Budgeted /\ slack_redist_iter = 0) =>
        \A n \in Range(topographical_order) :
            /\ net_data[n].max_arrival = SetMax(ArrivalsAt(D, Unrouted, n, Cardinality(Nets(D))))
            /\ \A c \in Range(D.users[n]) :
                  (Clocked(D, c) /\ ~getBudgetOverride(c)) =>
                      budget[c] = TruncDiv(clk_period - net_data[n].max_arrival,
                                           net_data[n].max_path_length + 1)

\* C10: for a non-empty sample map the binning puts every sample into one
\* bin of the vector: the bin width is nonzero, no index leaves the vector,
\* and the bins sum to the number of samples.
C10_EverySampleBinned ==
    (hist_pc \in {"binning", "trapped", "done"} /\ DOMAIN slack_histogram # {}) =>
        /\ bin_size # 0
        /\ hist_pc # "trapped"
        /\ hist_lost = 0
        /\ hist_pc = "done" =>
              SumOver(bins, 0 .. num_bins) = SumOver(slack_histogram, DOMAIN slack_histogram)

====
